---- MODULE Spec2Model ----
(***************************************************************************)
(* Client UI of repo2resume: the Home page (frontend/app/page.tsx) and the *)
(* priority pull-request dialog (frontend/components/PriorityPRSelector).  *)
(* Every React state slot is a variable; every event handler and every     *)
(* continuation of an awaited fetch is one action.  React runs handlers    *)
(* one at a time on a single thread and re-renders between two events, so  *)
(* a handler always reads the state of the latest render.                  *)
(*                                                                         *)
(* A continuation that follows `await fetch(...)` and `await               *)
(* response.json()` reads no component state between the two awaits, so    *)
(* both awaits are taken in one step when the response is delivered.       *)
(*                                                                         *)
(* Nullable values are options: None is null/undefined, Some(v) a value.   *)
(***************************************************************************)
EXTENDS Integers, Sequences, FiniteSets, TLC

None == << >>
Some(v) == << v >>

\* ---------------------------------------------------------------- bounds
\* Requests of one kind that may be outstanding at once.
MaxInFlight == 2
\* Last page index the backend holds for a repository.
MaxPage == 1
\* Longest pull-request list the dialog holds.
MaxPrs == 3
\* Instants the model distinguishes within one calendar day.
TicksPerDay == 2

\* ------------------------------------------------------- input alphabets
RepoNames == {"acme/widgets", "acme/gears"}
Days == {1, 2}
\* Texts are sequences of characters, so that trimming is computed.
PromptTexts == {<< >>, <<" ">>, <<" ", "p", " ">>}
ServerPrompts == {<<"d">>}
Details == {"Bad credentials"}

\* ------------------------------------------------------ message texts
FetchReposFailedMsg == "Failed to fetch repositories"
GenerateFailedMsg == "Failed to generate summary"
FetchPRsFailedMsg == "Failed to fetch pull requests"
\* message of the TypeError a rejected fetch() carries
NetworkErrorMsg == "Failed to fetch"
\* message of the SyntaxError response.json() throws on a non-JSON body
JsonSyntaxErrorMsg == "Unexpected token in JSON"
\* message of the TypeError thrown by reading a property of null
NullPropertyErrorMsg == "Cannot read properties of null"

VARIABLES
  \* Home (page.tsx)
  repos, selectedRepo, dateRange, prioritizedPRs, summary, loading,
  fetchingRepos, error, customPrompt, defaultPrompt, isPromptOpen,
  \* Home: control state
  mounted,        \* the mount effect has run
  reposReqs,      \* number of outstanding GET /api/repos
  promptReq,      \* "none" | "pending" | "ok" | "failed": GET /api/default-prompt
  genReqs,        \* bodies of the outstanding POST /api/generate-summary
  \* PriorityPRSelector
  open, prs, pr_loading, loadingMore, pr_error, tempSelected, currentPage,
  hasMore,
  prReqs          \* outstanding GET .../pull-requests: [repo, page, append]

homeVars == << repos, selectedRepo, dateRange, prioritizedPRs, summary, loading,
               fetchingRepos, error, customPrompt, defaultPrompt, isPromptOpen >>
homeCtl == << mounted, reposReqs, promptReq, genReqs >>
prVars == << open, prs, pr_loading, loadingMore, pr_error, tempSelected,
             currentPage, hasMore, prReqs >>
vars == << homeVars, homeCtl, prVars >>

\* Removes element i of a sequence.
RemoveAt(s, i) == SubSeq(s, 1, i - 1) \o SubSeq(s, i + 1, Len(s))

\* ------------------------------------------------------ backend replies
\* What a fetch can end in: the promise rejects ("network"), or resolves to a
\* response that is 2xx ("ok") or not ("http_error"), whose body is a JSON
\* object, the JSON value null, or not JSON at all; an error object may
\* carry a detail string.
HttpResponses ==
  {[kind |-> "network", json |-> "invalid", detail |-> None]}
  \cup {[kind |-> k, json |-> j, detail |-> None] :
          k \in {"ok", "http_error"}, j \in {"null", "invalid"}}
  \cup {[kind |-> "ok", json |-> "object", detail |-> None]}
  \cup {[kind |-> "http_error", json |-> "object", detail |-> d] :
          d \in {None, Some("")} \cup {Some(x) : x \in Details}}

\* GET /api/repos answers 2xx with an array of Repository (here: full_name).
RepoLists == {<< >>, <<"acme/widgets", "acme/gears">>}
ReposResponses == {r \in HttpResponses : ~(r.kind = "ok" /\ r.json = "null")}

\* ------------------------------------------------------------- helpers
\* String.prototype.trim on a sequence of characters.
RECURSIVE TrimLeft(_)
TrimLeft(s) == IF s # << >> /\ Head(s) = " " THEN TrimLeft(Tail(s)) ELSE s
RECURSIVE TrimRight(_)
TrimRight(s) ==
  IF s # << >> /\ s[Len(s)] = " " THEN TrimRight(SubSeq(s, 1, Len(s) - 1)) ELSE s
Trim(s) == TrimRight(TrimLeft(s))

\* The Date the calendar yields for a picked day: its first instant.
PickerDate(day) == day * TicksPerDay
\* Date.prototype.toISOString: the calendar date and time of day of an instant.
toISOString(t) == [date |-> t \div TicksPerDay, time |-> t % TicksPerDay]

\* DateRange values the calendar's onSelect hands over (from, or from..to).
DateRanges ==
  {[from |-> Some(PickerDate(a)), to |-> None] : a \in Days}
  \cup {[from |-> Some(PickerDate(p[1])), to |-> Some(PickerDate(p[2]))] :
          p \in {q \in Days \X Days : q[1] <= q[2]}}

\* ---------------------------------------------------------------- Init
Init ==
  /\ repos = << >>
  /\ selectedRepo = ""
  /\ dateRange = None
  /\ prioritizedPRs = << >>
  /\ summary = None
  /\ loading = FALSE
  /\ fetchingRepos = TRUE
  /\ error = None
  /\ customPrompt = << >>
  /\ defaultPrompt = << >>
  /\ isPromptOpen = FALSE
  /\ mounted = FALSE
  /\ reposReqs = 0
  /\ promptReq = "none"
  /\ genReqs = << >>
  /\ open = FALSE
  /\ prs = << >>
  /\ pr_loading = FALSE
  /\ loadingMore = FALSE
  /\ pr_error = None
  /\ tempSelected = << >>
  /\ currentPage = 0
  /\ hasMore = TRUE
  /\ prReqs = << >>

\* ------------------------------------------------- Home: repository fetch
\* fetchRepositories up to its await: two state writes and the request.
fetchRepositories ==
  /\ fetchingRepos' = TRUE
  /\ error' = None
  /\ reposReqs' = reposReqs + 1

\* fetchDefaultPrompt up to its await: the request only.
fetchDefaultPrompt == promptReq' = "pending"

\* The mount effect (empty dependency list): runs once, after the first render.
MountEffectPending == ~mounted

Mount ==
  /\ MountEffectPending
  /\ mounted' = TRUE
  /\ fetchRepositories
  /\ fetchDefaultPrompt
  /\ UNCHANGED << repos, selectedRepo, dateRange, prioritizedPRs, summary, loading,
                  customPrompt, defaultPrompt, isPromptOpen, genReqs, prVars >>

\* The message fetchRepositories' catch block stores for a reply, None when
\* the try block ran to its end.
fetchRepositoriesError(r) ==
  CASE r.kind = "network" -> Some(NetworkErrorMsg)
    [] r.kind = "http_error" -> Some(FetchReposFailedMsg)
    [] r.kind = "ok" /\ r.json = "invalid" -> Some(JsonSyntaxErrorMsg)
    [] OTHER -> None

\* fetchRepositories after its await, for reply r carrying the array list.
fetchRepositoriesDone(r, list) ==
  /\ reposReqs > 0
  /\ reposReqs' = reposReqs - 1
  /\ IF fetchRepositoriesError(r) = None
       THEN repos' = list /\ UNCHANGED error
       ELSE error' = fetchRepositoriesError(r) /\ UNCHANGED repos
  /\ fetchingRepos' = FALSE
  /\ UNCHANGED << selectedRepo, dateRange, prioritizedPRs, summary, loading,
                  customPrompt, defaultPrompt, isPromptOpen, mounted, promptReq,
                  genReqs, prVars >>

\* TRUE when fetchDefaultPrompt's try block reaches setDefaultPrompt.
fetchDefaultPromptOk(r) == r.kind = "ok" /\ r.json = "object"

\* Mutant: the catch block reports the failure like the other fetches do.
fetchDefaultPromptCatchReports(r) ==
  IF r.kind = "network" THEN Some(NetworkErrorMsg) ELSE Some(JsonSyntaxErrorMsg)

\* What fetchDefaultPrompt's catch block writes to error: nothing.
fetchDefaultPromptCatch(r) == error

\* fetchDefaultPrompt after its await, for reply r carrying prompt p.
fetchDefaultPromptDone(r, p) ==
  /\ promptReq = "pending"
  /\ IF fetchDefaultPromptOk(r)
       THEN defaultPrompt' = p /\ promptReq' = "ok" /\ UNCHANGED error
       ELSE /\ UNCHANGED defaultPrompt
            /\ promptReq' = "failed"
            /\ error' = fetchDefaultPromptCatch(r)
  /\ UNCHANGED << repos, selectedRepo, dateRange, prioritizedPRs, summary, loading,
                  fetchingRepos, customPrompt, isPromptOpen, mounted, reposReqs,
                  genReqs, prVars >>

\* --------------------------------------------------- Home: the form
\* The form is rendered once fetchingRepos is false; the modal dialog of
\* PriorityPRSelector makes everything outside it inert while it is open.
FormEnabled == ~fetchingRepos /\ ~open

\* RepoSelector: onValueChange={onRepoChange} with an item of repos.
SelectRepo(r) ==
  /\ FormEnabled
  /\ \E i \in DOMAIN repos : repos[i] = r
  /\ selectedRepo' = r
  /\ UNCHANGED << repos, dateRange, prioritizedPRs, summary, loading, fetchingRepos,
                  error, customPrompt, defaultPrompt, isPromptOpen, homeCtl, prVars >>

\* DateRangeSelector: Calendar onSelect={onDateRangeChange}.
SelectDateRange(dr) ==
  /\ FormEnabled
  /\ dateRange' = Some(dr)
  /\ UNCHANGED << repos, selectedRepo, prioritizedPRs, summary, loading,
                  fetchingRepos, error, customPrompt, defaultPrompt, isPromptOpen,
                  homeCtl, prVars >>

\* DateRangeSelector: the X button, rendered when dateRange is set.
ClearDateRange ==
  /\ FormEnabled
  /\ dateRange # None
  /\ dateRange' = None
  /\ UNCHANGED << repos, selectedRepo, prioritizedPRs, summary, loading,
                  fetchingRepos, error, customPrompt, defaultPrompt, isPromptOpen,
                  homeCtl, prVars >>

\* Collapsible onOpenChange={setIsPromptOpen}.
TogglePrompt ==
  /\ FormEnabled
  /\ isPromptOpen' = ~isPromptOpen
  /\ UNCHANGED << repos, selectedRepo, dateRange, prioritizedPRs, summary, loading,
                  fetchingRepos, error, customPrompt, defaultPrompt, homeCtl, prVars >>

\* textarea onChange, the "Use Default" button and the "Clear" button.
EditPrompt(t) ==
  /\ FormEnabled /\ isPromptOpen
  /\ customPrompt' = t
  /\ UNCHANGED << repos, selectedRepo, dateRange, prioritizedPRs, summary, loading,
                  fetchingRepos, error, defaultPrompt, isPromptOpen, homeCtl, prVars >>

UseDefaultPrompt ==
  /\ FormEnabled /\ isPromptOpen
  /\ defaultPrompt # << >>
  /\ customPrompt' = defaultPrompt
  /\ UNCHANGED << repos, selectedRepo, dateRange, prioritizedPRs, summary, loading,
                  fetchingRepos, error, defaultPrompt, isPromptOpen, homeCtl, prVars >>

ClearPrompt ==
  /\ FormEnabled /\ isPromptOpen
  /\ customPrompt # << >>
  /\ customPrompt' = << >>
  /\ UNCHANGED << repos, selectedRepo, dateRange, prioritizedPRs, summary, loading,
                  fetchingRepos, error, defaultPrompt, isPromptOpen, homeCtl, prVars >>

\* ------------------------------------------------ Home: generateSummary
\* Mutant: the button is not disabled while a submission is in flight.
GenerateDisabledIgnoresLoading == selectedRepo = ""

\* The Generate button's disabled attribute.
GenerateDisabled == selectedRepo = "" \/ loading

\* Mutant: the early return is dropped.
generateSummaryNeverReturns == FALSE

\* generateSummary's first line: return when no repository is selected.
generateSummaryReturns == selectedRepo = ""

\* Mutant: the prompt is sent as typed, white space included.
RequestBodyUntrimmed ==
  [repo_name |-> selectedRepo,
   start_date |-> IF dateRange # None /\ dateRange[1].from # None
                    THEN Some(toISOString(dateRange[1].from[1])) ELSE None,
   end_date |-> IF dateRange # None /\ dateRange[1].to # None
                  THEN Some(toISOString(dateRange[1].to[1])) ELSE None,
   prioritized_pr_numbers |-> IF Len(prioritizedPRs) > 0
                                THEN Some(prioritizedPRs) ELSE None,
   custom_prompt |-> IF customPrompt # << >>
                       THEN Some(customPrompt) ELSE None]

\* The GenerateSummaryRequest built from the selections; None is a key left out.
RequestBody ==
  [repo_name |-> selectedRepo,
   start_date |-> IF dateRange # None /\ dateRange[1].from # None
                    THEN Some(toISOString(dateRange[1].from[1])) ELSE None,
   end_date |-> IF dateRange # None /\ dateRange[1].to # None
                  THEN Some(toISOString(dateRange[1].to[1])) ELSE None,
   prioritized_pr_numbers |-> IF Len(prioritizedPRs) > 0
                                THEN Some(prioritizedPRs) ELSE None,
   custom_prompt |-> IF Trim(customPrompt) # << >>
                       THEN Some(Trim(customPrompt)) ELSE None]

\* Mutant: a new submission leaves the previous error on screen.
generateSummaryKeepsError ==
  IF generateSummaryReturns
    THEN UNCHANGED << loading, error, summary, genReqs >>
    ELSE /\ loading' = TRUE
         /\ UNCHANGED error
         /\ summary' = None
         /\ genReqs' = Append(genReqs, RequestBody)

\* Mutant: a new submission leaves the previous summary on screen.
generateSummaryKeepsSummary ==
  IF generateSummaryReturns
    THEN UNCHANGED << loading, error, summary, genReqs >>
    ELSE /\ loading' = TRUE
         /\ error' = None
         /\ UNCHANGED summary
         /\ genReqs' = Append(genReqs, RequestBody)

\* generateSummary up to its await.
generateSummary ==
  IF generateSummaryReturns
    THEN UNCHANGED << loading, error, summary, genReqs >>
    ELSE /\ loading' = TRUE
         /\ error' = None
         /\ summary' = None
         /\ genReqs' = Append(genReqs, RequestBody)

ClickGenerate ==
  /\ FormEnabled
  /\ ~GenerateDisabled
  /\ Len(genReqs) < MaxInFlight
  /\ generateSummary
  /\ UNCHANGED << repos, selectedRepo, dateRange, prioritizedPRs, fetchingRepos,
                  customPrompt, defaultPrompt, isPromptOpen, mounted, reposReqs,
                  promptReq, prVars >>

\* Mutant: the detail of an error reply is dropped, as fetchRepositories does.
generateSummaryErrorDropsDetail(r) ==
  CASE r.kind = "network" -> Some(NetworkErrorMsg)
    [] r.json = "invalid" -> Some(JsonSyntaxErrorMsg)
    [] r.kind = "http_error" -> Some(GenerateFailedMsg)
    [] OTHER -> None

\* The message generateSummary's catch block stores for reply r, None when the
\* try block ran to its end.
generateSummaryError(r) ==
  CASE r.kind = "network" -> Some(NetworkErrorMsg)
    [] r.json = "invalid" -> Some(JsonSyntaxErrorMsg)
    [] r.kind = "http_error" /\ r.json = "null" -> Some(NullPropertyErrorMsg)
    [] r.kind = "http_error" /\ r.json = "object" ->
         IF r.detail = None \/ r.detail = Some("")
           THEN Some(GenerateFailedMsg) ELSE r.detail
    [] OTHER -> None

\* The SummaryResponse of a 2xx reply to request body b (null for a null body).
SummaryData(r, b) ==
  IF r.json = "null" THEN None ELSE Some([repo_name |-> b.repo_name])

\* Mutant: the catch block also resets the form.
generateSummaryDoneResetsForm(i, r) ==
  /\ i \in DOMAIN genReqs
  /\ genReqs' = RemoveAt(genReqs, i)
  /\ IF generateSummaryError(r) = None
       THEN /\ summary' = SummaryData(r, genReqs[i])
            /\ UNCHANGED << error, selectedRepo, dateRange, prioritizedPRs,
                            customPrompt >>
       ELSE /\ error' = generateSummaryError(r)
            /\ selectedRepo' = ""
            /\ dateRange' = None
            /\ prioritizedPRs' = << >>
            /\ customPrompt' = << >>
            /\ UNCHANGED summary
  /\ loading' = FALSE
  /\ UNCHANGED << repos, fetchingRepos, defaultPrompt, isPromptOpen, mounted,
                  reposReqs, promptReq, prVars >>

\* Mutant: setLoading(false) at the end of the try block, not in a finally.
generateSummaryDoneNoFinally(i, r) ==
  /\ i \in DOMAIN genReqs
  /\ genReqs' = RemoveAt(genReqs, i)
  /\ IF generateSummaryError(r) = None
       THEN /\ summary' = SummaryData(r, genReqs[i])
            /\ loading' = FALSE
            /\ UNCHANGED error
       ELSE /\ error' = generateSummaryError(r)
            /\ UNCHANGED << summary, loading >>
  /\ UNCHANGED << repos, selectedRepo, dateRange, prioritizedPRs, fetchingRepos,
                  customPrompt, defaultPrompt, isPromptOpen, mounted, reposReqs,
                  promptReq, prVars >>

\* generateSummary after its await, for outstanding request i and reply r.
generateSummaryDone(i, r) ==
  /\ i \in DOMAIN genReqs
  /\ genReqs' = RemoveAt(genReqs, i)
  /\ IF generateSummaryError(r) = None
       THEN summary' = SummaryData(r, genReqs[i]) /\ UNCHANGED error
       ELSE error' = generateSummaryError(r) /\ UNCHANGED summary
  /\ loading' = FALSE
  /\ UNCHANGED << repos, selectedRepo, dateRange, prioritizedPRs, fetchingRepos,
                  customPrompt, defaultPrompt, isPromptOpen, mounted, reposReqs,
                  promptReq, prVars >>

\* ------------------------------------------- PriorityPRSelector: backend
\* GET /api/repos/{repo}/pull-requests?page=: one pull request per page, pages
\* 0..MaxPage.  The two repositories number their pull requests from 1 and
\* from 2, so a number may exist in one of them only or in both.
FirstNumber(repo) == IF repo = "acme/widgets" THEN 1 ELSE 2
NumbersOf(repo) == {FirstNumber(repo) + p : p \in 0..MaxPage}

\* The raw state and merged timestamp of the pull request on a page: every
\* state the ChangeRequest entity allows, with and without a merge.
PRState(repo, page) ==
  CASE page = 0 -> "open"
    [] page = 1 /\ repo = "acme/widgets" -> "closed"
    [] page = 1 -> "merged"
    [] OTHER -> "closed"
PRMergedAt(repo, page) ==
  CASE page = 0 /\ repo = "acme/widgets" -> None
    [] page = 0 -> Some(1)
    [] page = 1 -> Some(1)
    [] OTHER -> None

PRPage(repo, page) ==
  [items |-> IF page <= MaxPage
               THEN << [repo |-> repo, number |-> FirstNumber(repo) + page,
                        state |-> PRState(repo, page),
                        merged_at |-> PRMergedAt(repo, page)] >>
               ELSE << >>,
   page |-> page,
   has_more |-> page < MaxPage]

\* ------------------------------------------- PriorityPRSelector: fetchPRs
\* The component's props.
repoName == selectedRepo
selectedPRs == prioritizedPRs

\* Mutant: the request names the first repository of the list, not the
\* selected one.
fetchPRsFirstRepo(page, append) ==
  IF repoName = ""
    THEN UNCHANGED << prs, pr_loading, loadingMore, pr_error, currentPage, hasMore,
                      prReqs >>
    ELSE /\ IF append
              THEN /\ loadingMore' = TRUE
                   /\ UNCHANGED << pr_loading, prs, currentPage, hasMore >>
              ELSE /\ pr_loading' = TRUE
                   /\ prs' = << >>
                   /\ currentPage' = 0
                   /\ hasMore' = TRUE
                   /\ UNCHANGED loadingMore
         /\ pr_error' = None
         /\ prReqs' = Append(prReqs, [repo |-> repos[1], page |-> page,
                                      append |-> append])

\* fetchPRs up to its await.
fetchPRs(page, append) ==
  IF repoName = ""
    THEN UNCHANGED << prs, pr_loading, loadingMore, pr_error, currentPage, hasMore,
                      prReqs >>
    ELSE /\ IF append
              THEN /\ loadingMore' = TRUE
                   /\ UNCHANGED << pr_loading, prs, currentPage, hasMore >>
              ELSE /\ pr_loading' = TRUE
                   /\ prs' = << >>
                   /\ currentPage' = 0
                   /\ hasMore' = TRUE
                   /\ UNCHANGED loadingMore
         /\ pr_error' = None
         /\ prReqs' = Append(prReqs, [repo |-> repoName, page |-> page,
                                      append |-> append])

\* The message fetchPRs' catch block stores for reply r, None when the try
\* block ran to its end.
fetchPRsError(r) ==
  CASE r.kind = "network" -> Some(NetworkErrorMsg)
    [] r.kind = "http_error" -> Some(FetchPRsFailedMsg)
    [] r.json = "invalid" -> Some(JsonSyntaxErrorMsg)
    [] r.json = "null" -> Some(NullPropertyErrorMsg)
    [] OTHER -> None

\* Mutant: the catch block stores the message and repeats the request.
fetchPRsDoneRetries(i, r) ==
  /\ i \in DOMAIN prReqs
  /\ LET q == prReqs[i]
         data == PRPage(q.repo, q.page)
     IN IF fetchPRsError(r) = None
          THEN /\ prReqs' = RemoveAt(prReqs, i)
               /\ prs' = IF q.append THEN prs \o data.items ELSE data.items
               /\ Len(prs') <= MaxPrs
               /\ hasMore' = data.has_more
               /\ currentPage' = data.page
               /\ UNCHANGED pr_error
               /\ IF q.append
                    THEN loadingMore' = FALSE /\ UNCHANGED pr_loading
                    ELSE pr_loading' = FALSE /\ UNCHANGED loadingMore
          ELSE /\ prReqs' = Append(RemoveAt(prReqs, i), q)
               /\ pr_error' = fetchPRsError(r)
               /\ UNCHANGED << prs, hasMore, currentPage, pr_loading, loadingMore >>
  /\ UNCHANGED << homeVars, homeCtl, open, tempSelected >>

\* fetchPRs after its await, for outstanding request i and reply r.
fetchPRsDone(i, r) ==
  /\ i \in DOMAIN prReqs
  /\ LET q == prReqs[i]
         data == PRPage(q.repo, q.page)
     IN /\ prReqs' = RemoveAt(prReqs, i)
        /\ IF fetchPRsError(r) = None
             THEN /\ prs' = IF q.append THEN prs \o data.items ELSE data.items
                  /\ Len(prs') <= MaxPrs
                  /\ hasMore' = data.has_more
                  /\ currentPage' = data.page
                  /\ UNCHANGED pr_error
             ELSE /\ pr_error' = fetchPRsError(r)
                  /\ UNCHANGED << prs, hasMore, currentPage >>
        /\ IF q.append
             THEN loadingMore' = FALSE /\ UNCHANGED pr_loading
             ELSE pr_loading' = FALSE /\ UNCHANGED loadingMore
  /\ UNCHANGED << homeVars, homeCtl, open, tempSelected >>

\* ---------------------------------------- PriorityPRSelector: the dialog
\* Mutant: the effect fetches the list and leaves the working selection.
OpenEffectKeepsTemp ==
  /\ fetchPRs(0, FALSE)
  /\ UNCHANGED tempSelected

\* The effect on [open, repoName], run with the values of the new render.
OpenEffect ==
  /\ fetchPRs(0, FALSE)
  /\ tempSelected' = selectedPRs

\* DialogTrigger: the button is disabled while no repository is selected.
OpenDialog ==
  /\ FormEnabled
  /\ repoName # ""
  /\ Len(prReqs) < MaxInFlight
  /\ open' = TRUE
  /\ OpenEffect
  /\ UNCHANGED << homeVars, homeCtl >>

\* Dialog onOpenChange(false): Escape, the overlay or the close icon.
DismissDialog ==
  /\ open
  /\ open' = FALSE
  /\ UNCHANGED << homeVars, homeCtl, prs, pr_loading, loadingMore, pr_error,
                  tempSelected, currentPage, hasMore, prReqs >>

handleCancel ==
  /\ open
  /\ tempSelected' = selectedPRs
  /\ open' = FALSE
  /\ UNCHANGED << homeVars, homeCtl, prs, pr_loading, loadingMore, pr_error,
                  currentPage, hasMore, prReqs >>

handleSave ==
  /\ open
  /\ prioritizedPRs' = tempSelected
  /\ open' = FALSE
  /\ UNCHANGED << repos, selectedRepo, dateRange, summary, loading, fetchingRepos,
                  error, customPrompt, defaultPrompt, isPromptOpen, homeCtl, prs,
                  pr_loading, loadingMore, pr_error, tempSelected, currentPage,
                  hasMore, prReqs >>

\* The list of checkboxes is rendered.
ListShown == ~pr_loading /\ pr_error = None /\ Len(prs) > 0

\* Array.prototype.includes and the filter of handleToggle.
Includes(s, n) == \E i \in DOMAIN s : s[i] = n
Without(s, n) == SelectSeq(s, LAMBDA x : x # n)

\* Mutant: the number is appended whether or not it is already selected.
toggleAlwaysAppends(prev, prNumber) == Append(prev, prNumber)

\* The updater handleToggle passes to setTempSelected.
toggle(prev, prNumber) ==
  IF Includes(prev, prNumber) THEN Without(prev, prNumber)
  ELSE Append(prev, prNumber)

handleToggle(prNumber) ==
  /\ open /\ ListShown
  /\ \E i \in DOMAIN prs : prs[i].number = prNumber
  /\ tempSelected' = toggle(tempSelected, prNumber)
  /\ UNCHANGED << homeVars, homeCtl, open, prs, pr_loading, loadingMore, pr_error,
                  currentPage, hasMore, prReqs >>

\* The badge text of a list entry.
StateLabel(pr) ==
  IF pr.state = "open" THEN "Open"
  ELSE IF pr.merged_at # None THEN "Merged" ELSE "Closed"

\* The Load more button is rendered.
LoadMoreShown == ~pr_loading /\ pr_error = None /\ Len(prs) > 0 /\ hasMore

\* Mutant: the button stays enabled while an append is outstanding.
LoadMoreNeverDisabled == FALSE

\* The Load more button's disabled attribute.
LoadMoreDisabled == loadingMore

\* Mutant: Load more asks for the page it already has.
loadMoreSamePage ==
  IF ~hasMore
    THEN UNCHANGED << prs, pr_loading, loadingMore, pr_error, currentPage, hasMore,
                      prReqs >>
    ELSE fetchPRs(currentPage, TRUE)

loadMore ==
  IF ~hasMore
    THEN UNCHANGED << prs, pr_loading, loadingMore, pr_error, currentPage, hasMore,
                      prReqs >>
    ELSE fetchPRs(currentPage + 1, TRUE)

ClickLoadMore ==
  /\ open /\ LoadMoreShown /\ ~LoadMoreDisabled
  /\ Len(prReqs) < MaxInFlight
  /\ loadMore
  /\ UNCHANGED << homeVars, homeCtl, open, tempSelected >>

\* ------------------------------------------------ Home: its child's callback
\* PriorityPRSelector reaches Home only through onPRsChange={setPrioritizedPRs}.
\* Seen from Home, the child may hand over any duplicate-free list of numbers.
NumberLists == {<< >>, <<1>>, <<2, 1>>}

onPRsChange(prNumbers) ==
  /\ ~fetchingRepos
  /\ selectedRepo # ""
  /\ prioritizedPRs' = prNumbers
  /\ UNCHANGED << repos, selectedRepo, dateRange, summary, loading, fetchingRepos,
                  error, customPrompt, defaultPrompt, isPromptOpen, homeCtl, prVars >>

\* ------------------------------------------------------ specifications
\* Home with its child component seen through its callback.
NextHome ==
  \/ Mount
  \/ \E r \in ReposResponses, list \in RepoLists : fetchRepositoriesDone(r, list)
  \/ \E r \in HttpResponses, p \in ServerPrompts : fetchDefaultPromptDone(r, p)
  \/ \E r \in RepoNames : SelectRepo(r)
  \/ \E dr \in DateRanges : SelectDateRange(dr)
  \/ ClearDateRange
  \/ TogglePrompt
  \/ \E t \in PromptTexts : EditPrompt(t)
  \/ UseDefaultPrompt
  \/ ClearPrompt
  \/ ClickGenerate
  \/ \E i \in 1..MaxInFlight, r \in HttpResponses : generateSummaryDone(i, r)
  \/ \E l \in NumberLists : onPRsChange(l)

SpecHome == Init /\ [][NextHome]_vars

\* Home when every generate-summary request is answered: the fetch promise of
\* an outstanding request settles, with a response or with a network error.
SpecHomeFair ==
  SpecHome
  /\ WF_vars(\E i \in 1..MaxInFlight, r \in HttpResponses : generateSummaryDone(i, r))

\* PriorityPRSelector with the part of Home that feeds its props: the
\* repository list and the selected repository.
NextDialog ==
  \/ Mount
  \/ \E r \in ReposResponses, list \in RepoLists : fetchRepositoriesDone(r, list)
  \/ \E r \in RepoNames : SelectRepo(r)
  \/ OpenDialog
  \/ DismissDialog
  \/ handleCancel
  \/ handleSave
  \/ \E n \in 1..(MaxPage + 2) : handleToggle(n)
  \/ ClickLoadMore
  \/ \E i \in 1..MaxInFlight, r \in HttpResponses : fetchPRsDone(i, r)

SpecDialog == Init /\ [][NextDialog]_vars

\* The dialog opened once and kept open: no Cancel, Save or dismissal.  A
\* submission made before the dialog is opened may be answered while it is open.
NextPaging ==
  \/ Mount
  \/ \E r \in ReposResponses, list \in RepoLists : fetchRepositoriesDone(r, list)
  \/ \E r \in RepoNames : SelectRepo(r)
  \/ ClickGenerate
  \/ \E i \in 1..MaxInFlight, r \in HttpResponses : generateSummaryDone(i, r)
  \/ OpenDialog
  \/ \E n \in 1..(MaxPage + 2) : handleToggle(n)
  \/ ClickLoadMore
  \/ \E i \in 1..MaxInFlight, r \in HttpResponses : fetchPRsDone(i, r)

SpecPaging == Init /\ [][NextPaging]_vars

\* The whole page: Home and PriorityPRSelector together, with the date range
\* and the prompt text left as they start, and every fetch answered either
\* 200 with its payload or 500 with an empty object.
AppReplies ==
  {r \in HttpResponses : r.json = "object" /\ r.detail = None}

NextApp ==
  \/ Mount
  \/ \E r \in AppReplies, list \in RepoLists : fetchRepositoriesDone(r, list)
  \/ \E r \in AppReplies, p \in ServerPrompts : fetchDefaultPromptDone(r, p)
  \/ \E r \in RepoNames : SelectRepo(r)
  \/ ClickGenerate
  \/ \E i \in 1..MaxInFlight, r \in AppReplies : generateSummaryDone(i, r)
  \/ OpenDialog
  \/ DismissDialog
  \/ handleCancel
  \/ handleSave
  \/ \E n \in 1..(MaxPage + 2) : handleToggle(n)
  \/ ClickLoadMore
  \/ \E i \in 1..MaxInFlight, r \in AppReplies : fetchPRsDone(i, r)

SpecApp == Init /\ [][NextApp]_vars

\* ================================================================ claims
\* The user's actions on Home other than the Generate button.
HomeEditAction ==
  \/ \E r \in RepoNames : SelectRepo(r)
  \/ \E dr \in DateRanges : SelectDateRange(dr)
  \/ ClearDateRange
  \/ TogglePrompt
  \/ \E t \in PromptTexts : EditPrompt(t)
  \/ UseDefaultPrompt
  \/ ClearPrompt
  \/ \E l \in NumberLists : onPRsChange(l)

\* The handler generateSummary run on the current state, whatever invoked it.
generateSummaryActs ==
  /\ generateSummary
  /\ << loading, error, summary, genReqs >>' # << loading, error, summary, genReqs >>

\* C1: no generate-summary request is issued while selectedRepo is empty:
\* every outstanding request names a repository, and while selectedRepo is
\* empty the Generate button is disabled and generateSummary changes neither
\* loading, error, summary nor the outstanding requests.
C1_NoRequestWithoutRepo ==
  /\ \A i \in DOMAIN genReqs : genReqs[i].repo_name # ""
  /\ selectedRepo = "" =>
       /\ GenerateDisabled
       /\ ~ENABLED ClickGenerate
       /\ ~ENABLED generateSummaryActs

\* The form is on screen with repositories to choose from and none chosen.
C1_Witness ==
  ~fetchingRepos /\ repos # << >> /\ selectedRepo = "" /\ genReqs = << >>

\* C2: at most one generate-summary request is outstanding, loading is true
\* exactly while one is, and no submission can start while loading is true.
C2_OneSubmissionInFlight ==
  /\ Len(genReqs) <= 1
  /\ loading <=> Len(genReqs) = 1
  /\ loading => ~ENABLED ClickGenerate

\* A submission is in flight and the form is on screen.
C2_Witness == loading /\ Len(genReqs) = 1 /\ FormEnabled /\ selectedRepo # ""

\* C3: the step in which a submission fails (loading falls and an error is
\* stored) leaves selectedRepo, dateRange, prioritizedPRs and customPrompt, and
\* every other slot of Home but error and loading, as they were.
C3_FailureKeepsSelections ==
  [][(loading /\ ~loading' /\ error' # None) =>
       UNCHANGED << selectedRepo, dateRange, prioritizedPRs, customPrompt, repos,
                    summary, fetchingRepos, defaultPrompt, isPromptOpen >>]_vars

\* A failed submission with every selection still in place.
C3_Witness ==
  /\ ~loading /\ error = Some(GenerateFailedMsg)
  /\ selectedRepo # "" /\ dateRange # None /\ prioritizedPRs # << >>
  /\ customPrompt # << >>

\* C4: once the repository fetch has failed, some enabled step issues
\* GET /api/repos again.
C4_RetryOffered ==
  (mounted /\ ~fetchingRepos /\ repos = << >> /\ error # None) =>
    ENABLED (NextHome /\ reposReqs' > reposReqs)

\* C5 as stated: while error is set, every user action clears it.
C5_AnyActionClearsError ==
  [][(error # None /\ (ClickGenerate \/ HomeEditAction)) => error' = None]_vars

\* C5 amended: while error is set, clicking Generate clears it, and selecting
\* a repository, changing the date range, saving priority PRs and editing the
\* prompt leave it as it is.
C5_GenerateClearsError ==
  [][error # None =>
       /\ ClickGenerate => error' = None
       /\ HomeEditAction => error' = error]_vars

\* The repository fetch failed and the error outlived a change of the dates.
C5_Witness ==
  ~fetchingRepos /\ error = Some(FetchReposFailedMsg) /\ dateRange # None

\* Number of outstanding load-more (append) requests.
AppendsOutstanding == Cardinality({i \in DOMAIN prReqs : prReqs[i].append})

\* C6: a superseded pull-request reply is ignored, so while the dialog is
\* open prs holds pull requests of the selected repository only.
C6_StaleReplyIgnored ==
  open => \A i \in DOMAIN prs : prs[i].repo = repoName

\* C7: at most one load-more request is outstanding, loadingMore is true
\* exactly while one is, and while it is true the Load more button cannot be
\* clicked, whether or not the dialog was closed and opened in between.
C7_OneLoadMoreInFlight ==
  /\ AppendsOutstanding <= 1
  /\ loadingMore <=> AppendsOutstanding = 1
  /\ loadingMore => (LoadMoreDisabled /\ ~ENABLED ClickLoadMore)

\* The dialog was closed and opened again while a load-more was outstanding.
C7_Witness ==
  /\ open /\ loadingMore
  /\ \E i, j \in DOMAIN prReqs : i < j /\ prReqs[i].append /\ ~prReqs[j].append

\* C8: when GET /api/repos is answered non-2xx with a detail message, error
\* becomes that message.
C8_ReposDetailShown ==
  [][\A r \in ReposResponses, list \in RepoLists :
       (r.kind = "http_error" /\ r.json = "object" /\ r.detail # None
          /\ r.detail # Some("") /\ fetchRepositoriesDone(r, list))
       => error' = r.detail]_vars

\* C9: when POST /api/generate-summary is answered non-2xx with a JSON object,
\* error becomes its detail if that is a non-empty string and "Failed to
\* generate summary" if it is absent or empty; summary stays null and loading
\* returns to false.
C9_GenerateErrorText ==
  [][\A i \in 1..MaxInFlight, r \in HttpResponses :
       (r.kind = "http_error" /\ r.json = "object" /\ generateSummaryDone(i, r))
       => /\ error' = IF r.detail \in {None, Some("")}
                        THEN Some("Failed to generate summary") ELSE r.detail
          /\ summary = None /\ summary' = None
          /\ ~loading']_vars

\* A submission failed with the backend's detail on screen.
C9_Witness ==
  /\ \E d \in Details : error = Some(d)
  /\ ~loading /\ summary = None /\ genReqs = << >>

\* C10: the step that ends the default-prompt fetch, whatever its outcome,
\* writes none of error, loading, fetchingRepos, repos and summary, nor any
\* selection; when the fetch failed, defaultPrompt is still empty.
C10_DefaultPromptFailsOpen ==
  [][(promptReq = "pending" /\ promptReq' # "pending") =>
       /\ UNCHANGED << error, loading, fetchingRepos, repos, summary >>
       /\ UNCHANGED << selectedRepo, dateRange, prioritizedPRs, customPrompt,
                       isPromptOpen, genReqs, reposReqs >>
       /\ promptReq' = "failed" => defaultPrompt' = << >>]_vars

\* The default-prompt fetch failed and the page went on to a submission.
C10_Witness ==
  /\ promptReq = "failed" /\ defaultPrompt = << >>
  /\ repos # << >> /\ error = None /\ loading

\* C11: in the list on screen, every pull request that has a merged timestamp
\* is labelled "Merged", whatever its raw state.
C11_MergedLabel ==
  (open /\ ListShown) =>
    \A i \in DOMAIN prs : prs[i].merged_at # None => StateLabel(prs[i]) = "Merged"


\* C12: a step issues a pull-request list request only with the dialog open
\* afterwards and a repository selected, the request names the repository
\* selected at that moment, and the step is not page load, a repository
\* selection or a submission.
C12_PRRequestsOnlyInDialog ==
  [][Len(prReqs') > Len(prReqs) =>
       /\ open'
       /\ selectedRepo # ""
       /\ prReqs' = Append(prReqs, prReqs'[Len(prReqs')])
       /\ prReqs'[Len(prReqs')].repo = selectedRepo
       /\ mounted' = mounted
       /\ selectedRepo' = selectedRepo
       /\ genReqs' = genReqs]_vars

C12_Witness ==
  /\ open
  /\ genReqs # << >>
  /\ prReqs # << >>
  /\ prReqs[1].append
  /\ prReqs[1].repo = "acme/gears"


\* t is s without its leading and trailing white space.
IsTrimOf(t, s) ==
  \E a, b \in 0..Len(s) :
    /\ a + b <= Len(s)
    /\ \A i \in 1..a : s[i] = " "
    /\ \A i \in (Len(s) - b + 1)..Len(s) : s[i] = " "
    /\ t = SubSeq(s, a + 1, Len(s) - b)
    /\ t # << >> => t[1] # " " /\ t[Len(t)] # " "

\* The instant an ISO-8601 string denotes.
InstantOf(iso) == iso.date * TicksPerDay + iso.time

\* C13: the body of a generate-summary request is built from the selections of
\* the submission: repo_name is selectedRepo; start_date and end_date are
\* present iff from and to are set; prioritized_pr_numbers is present iff
\* prioritizedPRs is non-empty and then equals it; custom_prompt is present iff
\* customPrompt has a non-blank character and then is the trimmed text.
C13_BodyFromSelections ==
  [][Len(genReqs') > Len(genReqs) =>
       LET b == genReqs'[Len(genReqs')]
           from == IF dateRange = None THEN None ELSE dateRange[1].from
           to == IF dateRange = None THEN None ELSE dateRange[1].to
       IN /\ genReqs' = Append(genReqs, b)
          /\ b.repo_name = selectedRepo
          /\ (b.start_date # None) <=> (from # None)
          /\ b.start_date # None => InstantOf(b.start_date[1]) = from[1]
          /\ (b.end_date # None) <=> (to # None)
          /\ b.end_date # None => InstantOf(b.end_date[1]) = to[1]
          /\ (b.prioritized_pr_numbers # None) <=> (prioritizedPRs # << >>)
          /\ b.prioritized_pr_numbers # None =>
               b.prioritized_pr_numbers[1] = prioritizedPRs
          /\ (b.custom_prompt # None) <=>
               (\E i \in DOMAIN customPrompt : customPrompt[i] # " ")
          /\ b.custom_prompt # None => IsTrimOf(b.custom_prompt[1], customPrompt)]_vars

C13_Witness ==
  /\ Len(genReqs) = 1
  /\ genReqs[1].repo_name = "acme/gears"
  /\ genReqs[1].start_date # None /\ genReqs[1].end_date # None
  /\ genReqs[1].prioritized_pr_numbers = Some(<<2, 1>>)
  /\ genReqs[1].custom_prompt = Some(<<"p">>)
  /\ customPrompt = <<" ", "p", " ">>


\* A 2xx reply whose JSON body is null, which is not a SummaryResponse.
NullSummaryReply ==
  \E i \in DOMAIN genReqs :
    generateSummaryDone(i, [kind |-> "ok", json |-> "null", detail |-> None])

Outstanding ==
  reposReqs + (IF promptReq = "pending" THEN 1 ELSE 0) + Len(genReqs) + Len(prReqs)

\* The step stores the message of a failed request.
FailureRecorded ==
  \/ error' # None /\ error' # error
  \/ pr_error' # None /\ pr_error' # pr_error
  \/ promptReq' = "failed" /\ promptReq # "failed"

\* The four triggering events, by what they do to the requests.
MountIssues ==
  /\ ~mounted /\ mounted'
  /\ reposReqs' = reposReqs + 1
  /\ promptReq = "none" /\ promptReq' = "pending"
  /\ genReqs' = genReqs /\ prReqs' = prReqs
DialogOpenIssues ==
  /\ ~open /\ open'
  /\ \E q \in {prReqs'[Len(prReqs')]} : ~q.append /\ prReqs' = Append(prReqs, q)
  /\ reposReqs' = reposReqs /\ promptReq' = promptReq /\ genReqs' = genReqs
LoadMoreIssues ==
  /\ open /\ open' /\ ~loadingMore /\ loadingMore'
  /\ \E q \in {prReqs'[Len(prReqs')]} : q.append /\ prReqs' = Append(prReqs, q)
  /\ reposReqs' = reposReqs /\ promptReq' = promptReq /\ genReqs' = genReqs
GenerateIssues ==
  /\ ~loading /\ loading'
  /\ genReqs' = Append(genReqs, genReqs'[Len(genReqs')])
  /\ reposReqs' = reposReqs /\ promptReq' = promptReq /\ prReqs' = prReqs

\* C15: requests are sent only by page mount (the repository list and the
\* default prompt), opening the dialog, Load more and Generate, one request
\* each; every other step that touches the requests answers exactly one and
\* sends none, and a step that stores a failure message answers one request
\* and sends none.
C15_NoAutomaticRetry ==
  [][/\ (reposReqs' # reposReqs \/ promptReq' # promptReq
           \/ genReqs' # genReqs \/ prReqs' # prReqs) =>
          \/ MountIssues
          \/ DialogOpenIssues
          \/ LoadMoreIssues
          \/ GenerateIssues
          \/ /\ Outstanding' = Outstanding - 1
             /\ reposReqs' <= reposReqs
             /\ promptReq' = promptReq \/ promptReq = "pending"
             /\ genReqs' = genReqs \/ \E i \in DOMAIN genReqs : genReqs' = RemoveAt(genReqs, i)
             /\ prReqs' = prReqs \/ \E i \in DOMAIN prReqs : prReqs' = RemoveAt(prReqs, i)
     /\ FailureRecorded => Outstanding' = Outstanding - 1]_vars

C15_Witness ==
  /\ mounted /\ Outstanding = 0
  /\ selectedRepo # ""
  /\ error = Some(GenerateFailedMsg)
  /\ open /\ pr_error = Some(FetchPRsFailedMsg)
  /\ promptReq = "failed"


\* C16: when an append request fails, prs, currentPage and hasMore are
\* unchanged, and if the dialog is open with nothing else outstanding and
\* hasMore is true, the Load more button is rendered and enabled again.
C16_FailedLoadMoreRecoverable ==
  [][\A i \in 1..MaxInFlight, r \in HttpResponses :
       (/\ i \in DOMAIN prReqs
        /\ prReqs[i].append
        /\ fetchPRsError(r) # None
        /\ fetchPRsDone(i, r)) =>
         /\ prs' = prs /\ currentPage' = currentPage /\ hasMore' = hasMore
         /\ (open' /\ prReqs' = << >> /\ ~pr_loading' /\ Len(prs') > 0 /\ hasMore') =>
              (LoadMoreShown' /\ ~LoadMoreDisabled')]_vars


\* The items of pages 0..k of a repository, in order.
RECURSIVE PagesUpTo(_, _)
PagesUpTo(repo, k) ==
  IF k = 0 THEN PRPage(repo, 0).items
  ELSE PagesUpTo(repo, k - 1) \o PRPage(repo, k).items

\* C17: with the dialog kept open on one repository and no request failed,
\* Load more sends one request, for page currentPage + 1, and none when hasMore
\* is false; a successful answer appends that page and moves currentPage and
\* hasMore to it; prs is always pages 0..currentPage in order and hasMore the
\* has_more of page currentPage.
C17_Pagination ==
  /\ []((open /\ pr_error = None /\ ~pr_loading) =>
          /\ prs = PagesUpTo(repoName, currentPage)
          /\ hasMore = PRPage(repoName, currentPage).has_more)
  /\ [][/\ (open /\ Len(prReqs') > Len(prReqs)) =>
             /\ hasMore
             /\ prReqs' = Append(prReqs, [repo |-> repoName, page |-> currentPage + 1,
                                          append |-> TRUE])
        /\ (open /\ ~hasMore) => prReqs' = prReqs
        /\ (loadingMore /\ ~loadingMore' /\ pr_error' = None) =>
             /\ prs' = prs \o PRPage(repoName, currentPage + 1).items
             /\ currentPage' = currentPage + 1
             /\ hasMore' = PRPage(repoName, currentPage + 1).has_more]_vars

C17_Witness ==
  /\ open /\ pr_error = None /\ prReqs = << >>
  /\ currentPage = MaxPage
  /\ Len(prs) = MaxPage + 1
  /\ ~hasMore


\* The instants of a calendar day.
InstantsOfDay(day) == {day * TicksPerDay + k : k \in 0..(TicksPerDay - 1)}

\* C18: every instant of the selected end day is at or before the end_date
\* sent in the generate-summary request.
C18_EndDayInclusive ==
  [][Len(genReqs') > Len(genReqs) =>
       LET b == genReqs'[Len(genReqs')]
       IN (dateRange # None /\ dateRange[1].to # None) =>
            /\ b.end_date # None
            /\ \A t \in InstantsOfDay(dateRange[1].to[1] \div TicksPerDay) :
                 t <= InstantOf(b.end_date[1])]_vars


\* C19: every number in prioritized_pr_numbers of a generate-summary request is
\* the number of a pull request of the repository named in its repo_name.
C19_PriorityNumbersOfRepo ==
  \A i \in DOMAIN genReqs :
    genReqs[i].prioritized_pr_numbers # None =>
      \A k \in DOMAIN genReqs[i].prioritized_pr_numbers[1] :
        genReqs[i].prioritized_pr_numbers[1][k] \in NumbersOf(genReqs[i].repo_name)


\* C20: prioritizedPRs changes only in a step that closes the dialog and
\* commits tempSelected (Save), and every step that opens the dialog resets
\* tempSelected to prioritizedPRs.
C20_OnlySaveCommits ==
  [][/\ prioritizedPRs' # prioritizedPRs =>
          (open /\ ~open' /\ prioritizedPRs' = tempSelected)
     /\ (~open /\ open') =>
          (tempSelected' = prioritizedPRs /\ prioritizedPRs' = prioritizedPRs)]_vars

C20_Witness ==
  /\ ~open
  /\ prioritizedPRs # << >>
  /\ tempSelected # prioritizedPRs


\* C21: in every state of Home, a displayed summary excludes an error and a
\* submission in flight: summary non-null implies error null and loading false.
C21_SummaryExcludesErrorAndLoading ==
  summary # None => (error = None /\ ~loading)

C21_Witness ==
  /\ summary = Some([repo_name |-> "acme/gears"])
  /\ selectedRepo = "acme/widgets"
  /\ genReqs = << >>


\* C22: in the open dialog, loading is true whenever a first-page (non-append)
\* request is outstanding.
C22_LoadingWhileResetOutstanding ==
  (open /\ \E i \in DOMAIN prReqs : ~prReqs[i].append) => pr_loading


\* A list without duplicates, and the set of its elements.
NoDuplicates(s) == \A i, j \in DOMAIN s : s[i] = s[j] => i = j
Elements(s) == {s[i] : i \in DOMAIN s}

\* C23: tempSelected never holds a number twice; a toggle of n removes the one
\* occurrence of n when it is selected and otherwise adds n, the other numbers
\* keeping their order; and toggling n once more gives back the set of numbers
\* selected before.
C23_ToggleInvolution ==
  /\ [] NoDuplicates(tempSelected)
  /\ [][\A n \in 1..(MaxPage + 2) :
          handleToggle(n) =>
            /\ IF n \in Elements(tempSelected)
                 THEN \E i \in DOMAIN tempSelected :
                        /\ tempSelected[i] = n
                        /\ tempSelected' = RemoveAt(tempSelected, i)
                 ELSE \E j \in DOMAIN tempSelected' :
                        /\ tempSelected'[j] = n
                        /\ RemoveAt(tempSelected', j) = tempSelected
            /\ (n \in Elements(tempSelected')) # (n \in Elements(tempSelected))
            /\ Elements(toggle(tempSelected', n)) = Elements(tempSelected)]_vars

C23_Witness ==
  /\ open
  /\ tempSelected = <<3, 1, 2>>

====
